---- MODULE Spec2Model ----
(***************************************************************************)
(* The sequence-similarity scan of src/app.py: calculate_seq_similarity,   *)
(* process_stock_seq and run_manual_scan with its thread pool.             *)
(*                                                                         *)
(* A sequence of symbols is a sequence over {0, 1} (the characters '0' and *)
(* '1' of the Python strings).  A score is the float the code computes,    *)
(* kept as the exact quotient num/den; scores are compared by cross        *)
(* multiplication.  For the lengths used here float division and the float *)
(* product len * 0.8 order values exactly as the rationals do.             *)
(***************************************************************************)
EXTENDS Integers, Sequences, FiniteSets

\* ------------------------------------------------------------------ bounds
\* MaxSeqLen: longest sequence of a direct call of calculate_seq_similarity.
\* MaxRows: rows of a table in the scans that vary prices and price range.
\* MaxCands: candidates in the scans that vary the workers' outcomes.
\* MaxCopies: rows of the largest table, one more than the 10 returned.
MaxSeqLen == 6
MaxRows == 2
MaxCands == 3
MaxCopies == 11

\* ------------------------------------------------- program constants
\* Variant of max_retries: one attempt more.
max_retries_4 == 3 + 1
max_retries == 3
max_workers == 5
TopK == 10
SUSPECT == "002115"

VARIABLES
    target_seq,   \* run_manual_scan's target_seq argument
    price_range,  \* <<>> for None, <<min_p, max_p>> otherwise
    universe,     \* what ak.stock_zh_a_spot_em() returns when it succeeds
    hist,         \* code -> what ak.stock_zh_a_hist() does for that code
    pc,           \* position of run_manual_scan
    attempt,      \* loop variable of the retry loop
    df_all,       \* rows of the local DataFrame df_all
    tasks,        \* the list of futures, in submission order
    yielded,      \* indices of the futures as_completed has yielded
    results,      \* the local list results
    ret,          \* the value run_manual_scan returned
    report,       \* how the scan ended: none, fetch_error, process_error, success, raised
    spot_calls,   \* calls of ak.stock_zh_a_spot_em() made so far
    spot_failures,\* how many of them raised
    sleeps,       \* calls of time.sleep(2) made so far
    sim_target,   \* arguments and result of a direct call of
    sim_stock,    \* calculate_seq_similarity
    sim_score

vars == <<target_seq, price_range, universe, hist, pc, attempt, df_all, tasks,
          yielded, results, ret, report, spot_calls, spot_failures, sleeps,
          sim_target, sim_stock, sim_score>>

scanvars == <<target_seq, price_range, universe, hist, pc, attempt, df_all, tasks,
              yielded, results, ret, report, spot_calls, spot_failures, sleeps>>

simvars == <<sim_target, sim_stock, sim_score>>

\* ---------------------------------------------------------------- helpers
Max(S) == CHOOSE x \in S : \A y \in S : y <= x

Min2(a, b) == IF a < b THEN a ELSE b

Take(s, n) == SubSeq(s, 1, Min2(n, Len(s)))

Range(s) == {s[i] : i \in DOMAIN s}

\* All sequences over S of length at most n.
SeqsUpTo(S, n) == UNION {[1..k -> S] : k \in 0..n}

\* ----------------------------------------------------------------- scores
Score(n, d) == [raised |-> FALSE, num |-> n, den |-> d]

ZeroDivisionError == [raised |-> TRUE, num |-> 0, den |-> 1]

\* a > p/q for a score a that was returned
ScoreGT(a, p, q) == a.num * q > p * a.den

ScoreGE(a, p, q) == a.num * q >= p * a.den

\* key(a) >= key(b) for two returned scores
ScoreGEq(a, b) == a.num * b.den >= b.num * a.den

ScoreEq(a, b) == a.num * b.den = b.num * a.den

\* ------------------------------------------- SequenceMatcher.find_longest_match
\* Length of the block of equal symbols that ends at a[i] and b[j].
RECURSIVE MatchEndingAt(_, _, _, _)
MatchEndingAt(a, b, i, j) ==
    IF i = 0 \/ j = 0 THEN 0
    ELSE IF a[i] # b[j] THEN 0
    ELSE 1 + MatchEndingAt(a, b, i - 1, j - 1)

\* match.size of find_longest_match(0, len(a), 0, len(b)) with no junk.
LongestMatchSize(a, b) ==
    Max({0} \cup {MatchEndingAt(a, b, i, j) : i \in DOMAIN a, j \in DOMAIN b})

\* ----------------------------------------------- calculate_seq_similarity
\* Variant: the quotient is taken over the candidate's length.
calculate_seq_similarity_bystock(target, stock) ==
    IF 5 * Len(stock) < 4 * Len(target) THEN Score(0, 1)
    ELSE IF Len(stock) = 0 THEN ZeroDivisionError
    ELSE Score(LongestMatchSize(target, stock), Len(stock))

\* Variant: the length check of line 15 is missing.
calculate_seq_similarity_nolencheck(target, stock) ==
    IF Len(target) = 0 THEN ZeroDivisionError
    ELSE Score(LongestMatchSize(target, stock), Len(target))

calculate_seq_similarity(target, stock) ==
    IF 5 * Len(stock) < 4 * Len(target) THEN Score(0, 1)
    ELSE IF Len(target) = 0 THEN ZeroDivisionError
    ELSE Score(LongestMatchSize(target, stock), Len(target))

\* ------------------------------------------------------ process_stock_seq
\* One candle of the provider's table: its open and close price.
Candle(o, c) == [open |-> o, close |-> c]

\* Variant: a flat candle counts as 0.
Sign_strict(c) == IF c.close > c.open THEN 1 ELSE 0

\* np.where(close >= open, '1', '0')
Sign(c) == IF c.close >= c.open THEN 1 ELSE 0

\* "".join(df['sign'].tolist())
Signs(candles) == [i \in DOMAIN candles |-> Sign(candles[i])]

\* What a call returns or raises: value is <<>> for None, <<record>> otherwise.
Returned(v) == [raised |-> FALSE, value |-> v]

Raised == [raised |-> TRUE, value |-> <<>>]

MatchRecord(row, score, stock_seq) ==
    [code |-> row.code, name |-> row.name, price |-> row.price,
     score |-> score, stock_seq |-> stock_seq]

\* Variant: score >= 0.85
AboveThreshold_ge(score) == ScoreGE(score, 85, 100)

\* score > 0.85
AboveThreshold(score) == ScoreGT(score, 85, 100)

\* The body of the try block.  resp is what ak.stock_zh_a_hist does for the
\* row's code: it raises, it returns a table without the open/close columns
\* (malformed), or it returns candles (none: df.empty).
TryBody(row, target, resp) ==
    IF resp.kind = "raise" THEN Raised
    ELSE IF resp.candles = <<>> THEN Returned(<<>>)
    ELSE IF resp.kind = "malformed" THEN Raised
    ELSE LET stock_seq_str == Signs(resp.candles)
             score == calculate_seq_similarity(target, stock_seq_str)
         IN  IF score.raised THEN Raised
             ELSE IF AboveThreshold(score)
                  THEN Returned(<<MatchRecord(row, score, stock_seq_str)>>)
                  ELSE Returned(<<>>)

\* Variant: no except clause.
process_stock_seq_nocatch(row, target, resp) == TryBody(row, target, resp)

process_stock_seq(row, target, resp) ==
    LET r == TryBody(row, target, resp)
    IN  IF r.raised THEN Returned(<<>>) ELSE r

\* ------------------------------------------------ run_manual_scan: the table
Row(c, p) == [code |-> c, name |-> c, price |-> p]

Frame(rows) == [malformed |-> FALSE, rows |-> rows]

\* pd.DataFrame(): no rows and no columns, so df_all['最新价'] raises.
EmptyFrame == [malformed |-> TRUE, rows |-> <<>>]

InRange(r, pr) == r.price >= pr[1] /\ r.price <= pr[2]

Positive(r) == r.price > 0

FilterByPrice(rows, pr) ==
    IF pr # <<>>
    THEN SelectSeq(rows, LAMBDA r : InRange(r, pr))
    ELSE SelectSeq(rows, Positive)

IsSuspect(r) == r.code = SUSPECT

\* drop_duplicates(subset=['代码']): the first row of each code is kept.
RECURSIVE DropDuplicatesFrom(_, _)
DropDuplicatesFrom(rows, seen) ==
    IF rows = <<>> THEN <<>>
    ELSE IF Head(rows).code \in seen THEN DropDuplicatesFrom(Tail(rows), seen)
    ELSE <<Head(rows)>> \o DropDuplicatesFrom(Tail(rows), seen \cup {Head(rows).code})

DropDuplicates(rows) == DropDuplicatesFrom(rows, {})

\* Lines 94-96: suspect is taken from the table that was already filtered.
ForceSuspect(rows) ==
    LET suspect == SelectSeq(rows, IsSuspect)
    IN  IF suspect # <<>> THEN DropDuplicates(rows \o suspect) ELSE rows

\* ------------------------------------------------- run_manual_scan: the sort
\* Variant: the sort is not stable: x goes before the elements of equal key.
InsertDesc_unstable(sorted, x) ==
    LET k == Cardinality({i \in DOMAIN sorted :
                            ~ScoreGEq(x.score, sorted[i].score)})
    IN  SubSeq(sorted, 1, k) \o <<x>> \o SubSeq(sorted, k + 1, Len(sorted))

\* Variant: reverse=True is missing.
InsertDesc_asc(sorted, x) ==
    LET k == Cardinality({i \in DOMAIN sorted : ScoreGEq(x.score, sorted[i].score)})
    IN  SubSeq(sorted, 1, k) \o <<x>> \o SubSeq(sorted, k + 1, Len(sorted))

\* x goes after every element whose key is >= its own: the sort is stable.
InsertDesc(sorted, x) ==
    LET k == Cardinality({i \in DOMAIN sorted : ScoreGEq(sorted[i].score, x.score)})
    IN  SubSeq(sorted, 1, k) \o <<x>> \o SubSeq(sorted, k + 1, Len(sorted))

\* results.sort(key=lambda x: x['匹配度'], reverse=True)
RECURSIVE SortByScoreDesc(_)
SortByScoreDesc(s) ==
    IF s = <<>> THEN <<>>
    ELSE InsertDesc(SortByScoreDesc(SubSeq(s, 1, Len(s) - 1)), s[Len(s)])

\* Lines 131-132.
TopResults(res) == Take(SortByScoreDesc(res), TopK)

\* ---------------------------------------------------------- the thread pool
Future(row) == [row |-> row, state |-> "queued", raised |-> FALSE, value |-> <<>>]

Running == {i \in DOMAIN tasks : tasks[i].state = "running"}

Queued == {i \in DOMAIN tasks : tasks[i].state = "queued"}

\* ---------------------------------------------------------------- actions
\* Line 73 returns the table: break.
FetchOk ==
    /\ pc = "fetch"
    /\ spot_calls' = spot_calls + 1
    /\ df_all' = universe
    /\ pc' = "filter"
    /\ UNCHANGED <<target_seq, price_range, universe, hist, attempt, tasks, yielded,
                   results, ret, report, spot_failures, sleeps, simvars>>

\* Line 73 raises and attempts are left: warn, sleep, try again.
FetchRetry ==
    /\ pc = "fetch"
    /\ attempt < max_retries - 1
    /\ spot_calls' = spot_calls + 1
    /\ spot_failures' = spot_failures + 1
    /\ sleeps' = sleeps + 1
    /\ attempt' = attempt + 1
    /\ UNCHANGED <<target_seq, price_range, universe, hist, pc, df_all, tasks, yielded,
                   results, ret, report, simvars>>

\* Variant: the last failure does not return; the scan goes on with the
\* provider's table.
FetchGiveUp_partial ==
    /\ pc = "fetch"
    /\ ~(attempt < max_retries - 1)
    /\ spot_calls' = spot_calls + 1
    /\ spot_failures' = spot_failures + 1
    /\ df_all' = universe
    /\ pc' = "filter"
    /\ UNCHANGED <<target_seq, price_range, universe, hist, attempt, tasks, yielded,
                   results, ret, report, sleeps, simvars>>

\* Line 73 raises on the last attempt: report the error, return [].
FetchGiveUp ==
    /\ pc = "fetch"
    /\ ~(attempt < max_retries - 1)
    /\ spot_calls' = spot_calls + 1
    /\ spot_failures' = spot_failures + 1
    /\ report' = "fetch_error"
    /\ ret' = <<>>
    /\ pc' = "returned"
    /\ UNCHANGED <<target_seq, price_range, universe, hist, attempt, df_all, tasks,
                   yielded, results, sleeps, simvars>>

\* Lines 84-100.
Filter ==
    /\ pc = "filter"
    /\ IF df_all.malformed
       THEN /\ report' = "process_error"
            /\ ret' = <<>>
            /\ pc' = "returned"
            /\ UNCHANGED df_all
       ELSE /\ df_all' = Frame(ForceSuspect(FilterByPrice(df_all.rows, price_range)))
            /\ pc' = "submit"
            /\ UNCHANGED <<report, ret>>
    /\ UNCHANGED <<target_seq, price_range, universe, hist, attempt, tasks, yielded,
                   results, spot_calls, spot_failures, sleeps, simvars>>

\* Lines 110-117: one turn of the loop over df_all.iterrows().
Submit ==
    /\ pc = "submit"
    /\ Len(tasks) < Len(df_all.rows)
    /\ tasks' = Append(tasks, Future(df_all.rows[Len(tasks) + 1]))
    /\ UNCHANGED <<target_seq, price_range, universe, hist, pc, attempt, df_all,
                   yielded, results, ret, report, spot_calls, spot_failures, sleeps,
                   simvars>>

\* Lines 119-120: every row is submitted; as_completed(tasks) begins.
StartCollect ==
    /\ pc = "submit"
    /\ Len(tasks) = Len(df_all.rows)
    /\ pc' = "collect"
    /\ UNCHANGED <<target_seq, price_range, universe, hist, attempt, df_all, tasks,
                   yielded, results, ret, report, spot_calls, spot_failures, sleeps,
                   simvars>>

\* A pool thread takes the oldest queued work item; at most max_workers run.
WorkerStart ==
    /\ Queued # {}
    /\ Cardinality(Running) < max_workers
    /\ LET i == CHOOSE j \in Queued : \A k \in Queued : j <= k
       IN  tasks' = [tasks EXCEPT ![i].state = "running"]
    /\ UNCHANGED <<target_seq, price_range, universe, hist, pc, attempt, df_all,
                   yielded, results, ret, report, spot_calls, spot_failures, sleeps,
                   simvars>>

\* A running process_stock_seq call ends and sets its future.
WorkerFinish(i) ==
    /\ tasks[i].state = "running"
    /\ LET row == tasks[i].row
       IN  \E out \in {process_stock_seq(row, target_seq, hist[row.code])} :
              tasks' = [tasks EXCEPT ![i].state = "finished",
                                     ![i].raised = out.raised,
                                     ![i].value = out.value]
    /\ UNCHANGED <<target_seq, price_range, universe, hist, pc, attempt, df_all,
                   yielded, results, ret, report, spot_calls, spot_failures, sleeps,
                   simvars>>

\* Lines 120-123: as_completed yields a finished future; future.result()
\* returns the worker's value or raises what the worker raised.
Collect(i) ==
    /\ pc = "collect"
    /\ tasks[i].state = "finished"
    /\ i \notin yielded
    /\ yielded' = yielded \cup {i}
    /\ IF tasks[i].raised
       THEN /\ report' = "raised"
            /\ pc' = "returned"
            /\ UNCHANGED results
       ELSE /\ results' = IF tasks[i].value # <<>>
                          THEN Append(results, tasks[i].value[1])
                          ELSE results
            /\ UNCHANGED <<report, pc>>
    /\ UNCHANGED <<target_seq, price_range, universe, hist, attempt, df_all, tasks,
                   ret, spot_calls, spot_failures, sleeps, simvars>>

\* Lines 128-132: every future was yielded; sort and return the top.
Return ==
    /\ pc = "collect"
    /\ yielded = DOMAIN tasks
    /\ results' = SortByScoreDesc(results)
    /\ ret' = TopResults(results)
    /\ report' = "success"
    /\ pc' = "returned"
    /\ UNCHANGED <<target_seq, price_range, universe, hist, attempt, df_all, tasks,
                   yielded, spot_calls, spot_failures, sleeps, simvars>>

Next ==
    \/ FetchOk
    \/ FetchRetry
    \/ FetchGiveUp
    \/ Filter
    \/ Submit
    \/ StartCollect
    \/ WorkerStart
    \/ \E i \in DOMAIN tasks : WorkerFinish(i)
    \/ \E i \in DOMAIN tasks : Collect(i)
    \/ Return

\* ------------------------------------------------------------ the inputs
\* Codes of the provider's universe; SUSPECT is the code line 94 names.
Codes == {SUSPECT, "A", "B", "C"}

T4 == <<1, 0, 1, 0>>

T7 == <<1, 1, 0, 0, 1, 0, 1>>

\* The first 14 symbols of default_seq (line 141).
T14 == <<1, 1, 0, 0, 0, 0, 0, 0, 0, 0, 1, 0, 0, 1>>

\* The first 20 symbols of default_seq (line 141).
T20 == <<1, 1, 0, 0, 0, 0, 0, 0, 0, 0, 1, 0, 0, 1, 1, 1, 0, 1, 1, 1>>

Up == Candle(1, 2)

Flat == Candle(1, 1)

Down == Candle(2, 1)

\* Candles whose signs are bits: a 1 is a rising or a flat candle.
AsCandles(bits) ==
    [i \in DOMAIN bits |-> IF bits[i] = 0 THEN Down
                           ELSE IF i % 2 = 0 THEN Flat ELSE Up]

RaiseResp == [kind |-> "raise", candles |-> <<>>]

MalformedResp == [kind |-> "malformed", candles |-> <<Flat>>]

EmptyResp == [kind |-> "ok", candles |-> <<>>]

Ok(bits) == [kind |-> "ok", candles |-> AsCandles(bits)]

Prefix(s, n) == SubSeq(s, 1, n)

\* The responses tried against each target.
Menu(t) ==
    IF t = T4
    THEN {RaiseResp, MalformedResp, EmptyResp, Ok(T4), Ok(<<0, 1, 0, 1>>), Ok(<<1, 0>>)}
    ELSE IF t = T7
    THEN {Ok(T7), Ok(Prefix(T7, 6)), Ok(Prefix(T7, 5))}
    ELSE {Ok(Prefix(T20, 17)), Ok(Prefix(T20, 18)), Ok(Prefix(T20, 15))}

ScoreRows == <<Row("A", 1), Row("B", 2), Row("C", 1), Row(SUSPECT, 2), Row("A", 2)>>

FilterRowSet == {Row(c, p) : c \in {SUSPECT, "A"}, p \in {0, 1, 2}}

FilterRanges == {<<>>, <<1, 1>>, <<2, 2>>, <<0, 1>>}

MixedRowSet == {Row("A", 1), Row("B", 1), Row("C", 1)}

Copies(r, n) == [i \in 1..n |-> r]

\* run_manual_scan is entered; nothing was fetched yet.
ScanStart ==
    /\ pc = "fetch"
    /\ attempt = 0
    /\ df_all = EmptyFrame
    /\ tasks = <<>>
    /\ yielded = {}
    /\ results = <<>>
    /\ ret = <<>>
    /\ report = "none"
    /\ spot_calls = 0
    /\ spot_failures = 0
    /\ sleeps = 0

NoSim ==
    /\ sim_target = <<>>
    /\ sim_stock = <<>>
    /\ sim_score = <<>>

\* Scans that differ in the workers' outcomes: every price is valid and no
\* price range is given.
InitScore ==
    /\ target_seq \in {T4, T7, T20}
    /\ price_range = <<>>
    /\ \E n \in 0..Min2(MaxCands, Len(ScoreRows)) :
          /\ universe = Frame(Prefix(ScoreRows, n))
          /\ hist \in [Codes -> Menu(target_seq) \cup {EmptyResp}]
          /\ \A c \in Codes :
                IF \E i \in 1..n : ScoreRows[i].code = c
                THEN hist[c] \in Menu(target_seq)
                ELSE hist[c] = EmptyResp

\* Scans that differ in the table and the price range: every candidate's
\* history reproduces the target.
InitFilter ==
    /\ target_seq = T4
    /\ price_range \in FilterRanges
    /\ universe \in {EmptyFrame} \cup {Frame(rows) : rows \in SeqsUpTo(FilterRowSet, MaxRows)}
    /\ hist = [c \in Codes |-> Ok(T4)]

Init ==
    /\ ScanStart
    /\ NoSim
    /\ (InitScore \/ InitFilter)

Spec == Init /\ [][Next]_vars

\* Scans of many candidates: the table holds copies of one matching row, or a
\* few rows whose scores are 1 (A and C) and 6/7 (B).  The table is fetched at
\* the first attempt.
InitTopK ==
    /\ ScanStart
    /\ NoSim
    /\ price_range = <<>>
    /\ \/ /\ target_seq = T4
          /\ universe \in {Frame(Copies(Row("A", 1), n)) : n \in 0..MaxCopies}
          /\ hist = [c \in Codes |-> Ok(T4)]
       \/ /\ target_seq = T7
          /\ universe \in {Frame(rows) : rows \in SeqsUpTo(MixedRowSet, MaxCands)}
          /\ hist = [c \in Codes |-> IF c = "B" THEN Ok(Prefix(T7, 6))
                                     ELSE IF c = SUSPECT THEN RaiseResp
                                     ELSE Ok(T7)]

NextTopK ==
    \/ FetchOk
    \/ Filter
    \/ Submit
    \/ StartCollect
    \/ WorkerStart
    \/ \E i \in DOMAIN tasks : WorkerFinish(i)
    \/ \E i \in DOMAIN tasks : Collect(i)
    \/ Return

SpecTopK == InitTopK /\ [][NextTopK]_vars

\* Sequences over S of length at most n in which no element occurs twice.
InjectiveSeqsUpTo(S, n) ==
    {s \in SeqsUpTo(S, n) : \A i, j \in DOMAIN s : i # j => s[i] # s[j]}

OrderRowSet == {Row("A", 1), Row("B", 1), Row("C", 1), Row(SUSPECT, 1)}

\* Scans in which the order of consumption can show in the result.  The table
\* is fetched at the first attempt and holds
\*  - one row C and then 10 rows A, all of score 1: 11 matches of equal score;
\*  - one row B of score 1 and then 10 rows A of score 6/7: 11 matches, one of
\*    them with a score no other match has;
\*  - a few rows of different codes with scores 1 (A and 002115), 13/14 (B)
\*    and 12/14 (C).
InitOrder ==
    /\ ScanStart
    /\ NoSim
    /\ price_range = <<>>
    /\ \/ /\ target_seq = T4
          /\ universe = Frame(<<Row("C", 1)>> \o Copies(Row("A", 1), TopK))
          /\ hist = [c \in Codes |-> Ok(T4)]
       \/ /\ target_seq = T7
          /\ universe = Frame(<<Row("B", 1)>> \o Copies(Row("A", 1), TopK))
          /\ hist = [c \in Codes |-> IF c = "B" THEN Ok(T7) ELSE Ok(Prefix(T7, 6))]
       \/ /\ target_seq = T14
          /\ universe \in {Frame(rows) : rows \in InjectiveSeqsUpTo(OrderRowSet, MaxCands)}
          /\ hist = [c \in Codes |-> IF c = "B" THEN Ok(Prefix(T14, 13))
                                     ELSE IF c = "C" THEN Ok(Prefix(T14, 12))
                                     ELSE Ok(T14)]

SpecOrder == InitOrder /\ [][NextTopK]_vars

\* Direct calls of calculate_seq_similarity on every pair of sequences.
SimCall ==
    /\ sim_score = <<>>
    /\ sim_score' = <<calculate_seq_similarity(sim_target, sim_stock)>>
    /\ UNCHANGED <<sim_target, sim_stock, scanvars>>

InitSim ==
    /\ ScanStart
    /\ target_seq = <<>>
    /\ price_range = <<>>
    /\ universe = EmptyFrame
    /\ hist = [c \in Codes |-> EmptyResp]
    /\ sim_target \in SeqsUpTo({0, 1}, MaxSeqLen)
    /\ sim_stock \in SeqsUpTo({0, 1}, MaxSeqLen)
    /\ sim_score = <<>>

NextSim == SimCall

SpecSim == InitSim /\ [][NextSim]_vars

\* ================================================================= claims
\* What the claims speak of, stated without the operators of the model.

\* A block of k symbols occurs in both a and b.
IsCommonBlock(a, b, k) ==
    \E i \in 0..(Len(a) - k), j \in 0..(Len(b) - k) :
        SubSeq(a, i + 1, i + k) = SubSeq(b, j + 1, j + k)

\* Length of the longest contiguous substring common to a and b.
LCSLen(a, b) == Max({k \in 0..Min2(Len(a), Len(b)) : IsCommonBlock(a, b, k)})

\* t occurs in s as a contiguous substring.
Occurs(t, s) == \E i \in 0..(Len(s) - Len(t)) : SubSeq(s, i + 1, i + Len(t)) = t

SimDone == sim_score # <<>>

SimScore == sim_score[1]

\* num/den lies in [0, 1]
InUnitInterval(a) == a.den > 0 /\ 0 <= a.num /\ a.num <= a.den

TooShort(t, s) == 5 * Len(s) < 4 * Len(t)

\* C1 as stated: for every target and candidate over {0,1} the call returns a
\* score in [0,1], and exactly 0 when the candidate is shorter than 0.8 times
\* the target.
C1_Original ==
    SimDone =>
        /\ ~SimScore.raised
        /\ InUnitInterval(SimScore)
        /\ (TooShort(sim_target, sim_stock) => SimScore.num = 0)

\* C1 amended: for every NON-EMPTY target and every candidate the call returns
\* a score in [0,1], exactly 0 when the candidate is shorter than 0.8 times the
\* target; with the empty target the call raises ZeroDivisionError.
C1_ScoreInUnitInterval ==
    SimDone =>
        /\ (sim_target # <<>> =>
              /\ ~SimScore.raised
              /\ InUnitInterval(SimScore)
              /\ (TooShort(sim_target, sim_stock) => SimScore.num = 0))
        /\ (sim_target = <<>> => SimScore.raised)

\* C1: a candidate shorter than 0.8 times the target that shares a block with
\* it was scored 0.
C1_Witness ==
    /\ SimDone
    /\ sim_target = <<1, 1, 0, 1, 1>>
    /\ sim_stock = <<1, 1, 0>>
    /\ ~SimScore.raised
    /\ SimScore.num = 0

\* C2 as stated: the score is the longest common substring's length divided by
\* the target's length; a target that occurs in the candidate scores 1.0
\* (target 110, candidate 110110), and target 110110, candidate 110 scores at
\* most 0.5.
C2_Original ==
    SimDone /\ sim_target # <<>> =>
        /\ ~SimScore.raised
        /\ SimScore.num * Len(sim_target) = LCSLen(sim_target, sim_stock) * SimScore.den
        /\ (Occurs(sim_target, sim_stock) => SimScore.num = SimScore.den)
        /\ (sim_target = <<1, 1, 0, 1, 1, 0>> /\ sim_stock = <<1, 1, 0>>
               => 2 * SimScore.num <= SimScore.den)

\* C2 amended: for a non-empty target and a candidate at least 0.8 times as long
\* the score is the longest common substring's length divided by the target's
\* length (a shorter candidate scores 0 whatever it shares with the target); a
\* non-empty target that occurs in the candidate scores 1.0 (target 110,
\* candidate 110110), and target 110110, candidate 110 scores at most 0.5.
C2_ScoreIsLcsOverTargetLength ==
    SimDone /\ sim_target # <<>> =>
        /\ ~SimScore.raised
        /\ (~TooShort(sim_target, sim_stock) =>
              /\ SimScore.den = Len(sim_target)
              /\ SimScore.num = LCSLen(sim_target, sim_stock))
        /\ (TooShort(sim_target, sim_stock) => SimScore.num = 0)
        /\ (Occurs(sim_target, sim_stock) => SimScore.num = SimScore.den)
        /\ (sim_target = <<1, 1, 0>> /\ sim_stock = <<1, 1, 0, 1, 1, 0>>
               => SimScore.num = SimScore.den)
        /\ (sim_target = <<1, 1, 0, 1, 1, 0>> /\ sim_stock = <<1, 1, 0>>
               => 2 * SimScore.num <= SimScore.den)

\* C2: target 110 was scored against candidate 110110.
C2_Witness ==
    /\ SimDone
    /\ sim_target = <<1, 1, 0>>
    /\ sim_stock = <<1, 1, 0, 1, 1, 0>>
    /\ SimScore = Score(3, 3)

\* ------------------------------------------------------------ scan claims
TaskCodes == {tasks[i].row.code : i \in DOMAIN tasks}

\* Every row was submitted and as_completed was entered.
Dispatched == pc = "collect" \/ (pc = "returned" /\ report \in {"success", "raised"})

\* The fetched table lists the designated code with a positive price.
SuspectListed ==
    /\ ~universe.malformed
    /\ \E i \in DOMAIN universe.rows :
          universe.rows[i].code = SUSPECT /\ universe.rows[i].price > 0

\* C3 as stated: when the fetched universe lists 002115 with a positive price,
\* 002115 is among the candidates dispatched to the workers, whether or not a
\* price range is given and whether or not its price lies in the range.
C3_SuspectAlwaysDispatched ==
    Dispatched /\ SuspectListed => SUSPECT \in TaskCodes

\* The score the code computes for the history the provider holds for code c.
ScoreOfCode(c) == calculate_seq_similarity(target_seq, Signs(hist[c].candles))

HasScore(c) == hist[c].kind = "ok" /\ hist[c].candles # <<>>

Above85(a) == 100 * a.num > 85 * a.den

\* Every record the scan holds anywhere: in a future, in results, returned.
AllRecords ==
    {tasks[i].value[1] : i \in {j \in DOMAIN tasks : tasks[j].value # <<>>}}
        \cup Range(results) \cup Range(ret)

\* C5: process_stock_seq returns a record only for a score strictly above 0.85,
\* and every record the scan returns has a score above 0.85, which is the score
\* of that candidate's history: a candidate scoring 0.85 or less is in no result.
C5_OnlyAboveThreshold ==
    \A r \in AllRecords :
        /\ ~r.score.raised
        /\ Above85(r.score)
        /\ HasScore(r.code)
        /\ r.score = ScoreOfCode(r.code)

\* C5: a candidate whose score is exactly 0.85 finished with no record.
C5_Witness ==
    \E i \in DOMAIN tasks :
        /\ tasks[i].state = "finished"
        /\ tasks[i].value = <<>>
        /\ HasScore(tasks[i].row.code)
        /\ ScoreOfCode(tasks[i].row.code) = Score(17, 20)

\* C6: the universe fetch is attempted at most 3 times; a success is the last
\* attempt; each failure but the third is followed by one sleep and another
\* attempt; the fetch failure is reported only after 3 failures in a row.
C6_BoundedRetry ==
    /\ spot_calls <= 3
    /\ sleeps = Min2(spot_failures, 2)
    /\ (pc = "fetch" => spot_calls = spot_failures /\ spot_failures < 3)
    /\ (pc # "fetch" /\ report # "fetch_error" => spot_calls = spot_failures + 1)
    /\ (report = "fetch_error" =>
          /\ spot_calls = 3
          /\ spot_failures = 3
          /\ pc = "returned"
          /\ ret = <<>>)

\* C6: the third attempt failed and the scan was reported as failed.
C6_Witness ==
    /\ report = "fetch_error"
    /\ spot_failures = 3
    /\ sleeps = 2

Failing(c) == hist[c].kind \in {"raise", "malformed"} \/ hist[c].candles = <<>>

\* The futures whose candidate has a history scoring above 0.85.
MatchingTasks ==
    {i \in DOMAIN tasks : HasScore(tasks[i].row.code)
                            /\ ~ScoreOfCode(tasks[i].row.code).raised
                            /\ Above85(ScoreOfCode(tasks[i].row.code))}

ExpectedRecord(i) ==
    MatchRecord(tasks[i].row, ScoreOfCode(tasks[i].row.code),
                Signs(hist[tasks[i].row.code].candles))

Count(s, x) == Cardinality({k \in DOMAIN s : s[k] = x})

\* C7: a worker whose fetch raises, returns nothing or returns a malformed
\* table raises nothing into the scan and yields no record; the scan is never
\* aborted once workers are dispatched; when it returns, every worker has
\* finished and the result holds exactly the matches of the other candidates
\* (at most 10 of them).
C7_WorkerFailureContained ==
    /\ \A i \in DOMAIN tasks :
          /\ ~tasks[i].raised
          /\ (tasks[i].state = "finished" /\ Failing(tasks[i].row.code)
                 => tasks[i].value = <<>>)
    /\ (tasks # <<>> => report \in {"none", "success"})
    /\ (report = "success" =>
          /\ \A i \in DOMAIN tasks : tasks[i].state = "finished"
          /\ Len(ret) = Min2(TopK, Cardinality(MatchingTasks))
          /\ \A k \in DOMAIN ret : \E i \in MatchingTasks : ret[k] = ExpectedRecord(i)
          /\ (Cardinality(MatchingTasks) <= TopK =>
                 \A i \in MatchingTasks :
                    Count(ret, ExpectedRecord(i))
                      = Cardinality({j \in MatchingTasks :
                                        ExpectedRecord(j) = ExpectedRecord(i)})))

\* C7: a scan with a raising worker and a malformed response returned the one
\* match of the remaining candidate.
C7_Witness ==
    /\ report = "success"
    /\ Len(ret) = 1
    /\ \E i, j \in DOMAIN tasks :
          /\ hist[tasks[i].row.code].kind = "raise"
          /\ hist[tasks[j].row.code].kind = "malformed"

\* The scenario of C8: target 1010, candidates A: 1010, B: 0101, C: 10.
Scenario8 ==
    /\ target_seq = <<1, 0, 1, 0>>
    /\ price_range = <<>>
    /\ ~universe.malformed
    /\ [i \in DOMAIN universe.rows |-> universe.rows[i].code] = <<"A", "B", "C">>
    /\ hist["A"] = Ok(<<1, 0, 1, 0>>)
    /\ hist["B"] = Ok(<<0, 1, 0, 1>>)
    /\ hist["C"] = Ok(<<1, 0>>)

RetCodes == [k \in DOMAIN ret |-> ret[k].code]

\* C8 as stated: A scores 1.0 and is included, B scores at most 0.5 and is
\* excluded, C scores 0 and is excluded; the result is exactly {A}.
C8_Original ==
    Scenario8 /\ report = "success" =>
        /\ ScoreOfCode("A") = Score(4, 4)
        /\ 2 * ScoreOfCode("B").num <= ScoreOfCode("B").den
        /\ ScoreOfCode("C").num = 0
        /\ RetCodes = <<"A">>

\* C8 amended: A scores 1.0 and is included, B scores 0.75 (1010 and 0101 share
\* a block of 3), which is not above 0.85, and is excluded, C is shorter than
\* 0.8 x 4, scores 0 and is excluded; the result is exactly {A}.
C8_Scenario ==
    Scenario8 /\ report = "success" =>
        /\ ScoreOfCode("A") = Score(4, 4)
        /\ ScoreOfCode("B") = Score(3, 4)
        /\ ScoreOfCode("C") = Score(0, 1)
        /\ RetCodes = <<"A">>
        /\ ret[1].score = Score(4, 4)

\* C8: the scan of the scenario returned.
C8_Witness ==
    /\ Scenario8
    /\ report = "success"
    /\ Len(tasks) = 3

\* C10: a worker is dispatched only after a fetch attempt succeeded, and a scan
\* whose fetch attempts all failed has dispatched no worker.
C10_NoDispatchBeforeFetch ==
    /\ (tasks # <<>> => pc \notin {"fetch", "filter"} /\ spot_calls = spot_failures + 1)
    /\ (pc \in {"fetch", "filter"} => tasks = <<>>)
    /\ (report = "fetch_error" => tasks = <<>> /\ results = <<>> /\ yielded = {})

\* C10: workers were dispatched after two failed attempts and a successful one.
C10_Witness ==
    /\ tasks # <<>>
    /\ spot_failures = 2
    /\ spot_calls = 3

\* --------------------------------------------------- claims on the result
ScoresOf(s) == [k \in DOMAIN s |-> s[k].score]

HasValue(f) == f.value # <<>>

\* The workers' records in the order their rows were submitted.
InOrder ==
    LET fs == SelectSeq(tasks, HasValue)
    IN  [k \in DOMAIN fs |-> fs[k].value[1]]

\* The list a scan returns when the workers are consumed in submission order.
Canonical == Take(SortByScoreDesc(InOrder), TopK)

NonIncreasing(s) ==
    \A i, j \in DOMAIN s : i < j => s[i].score.num * s[j].score.den
                                      >= s[j].score.num * s[i].score.den

\* C4: run_manual_scan returns at most 10 records, ordered by non-increasing
\* score, whatever the universe and the workers' outcomes.
C4_AtMostTopKSorted ==
    /\ Len(ret) <= 10
    /\ NonIncreasing(ret)
    /\ (report = "success" => Len(ret) = Min2(10, Len(InOrder)))

\* C4: more than 10 workers returned a record and 10 records were returned.
C4_Witness ==
    /\ report = "success"
    /\ Len(results) > 10
    /\ Len(ret) = 10

\* C9 as stated: the returned list is the same, records and order, in every
\* interleaving of worker completions, equal scores and more than 10 matches
\* included: it is the list of the interleaving in submission order.
C9_Original ==
    report = "success" => ret = Canonical

DistinctScores(s) ==
    \A i, j \in DOMAIN s : i # j => ~ScoreEq(s[i].score, s[j].score)

\* The records of s whose score equals v, in the order of s.
Group(s, v) == SelectSeq(s, LAMBDA r : ScoreEq(r.score, v))

\* No other worker's record has the score of r.
UniqueScore(r) ==
    Cardinality({i \in DOMAIN InOrder : ScoreEq(InOrder[i].score, r.score)}) = 1

\* What holds of every returned list.
C9_Returned ==
    report = "success" =>
        /\ ScoresOf(ret) = ScoresOf(Canonical)
        /\ \A k \in DOMAIN ret : Count(ret, ret[k]) <= Count(InOrder, ret[k])
        /\ \A k \in DOMAIN Canonical :
              UniqueScore(Canonical[k]) => ret[k] = Canonical[k]
        /\ \A i \in DOMAIN InOrder :
              UniqueScore(InOrder[i]) =>
                 ((\E k \in DOMAIN ret : ret[k] = InOrder[i])
                    <=> (\E k \in DOMAIN Canonical : Canonical[k] = InOrder[i]))
        /\ (DistinctScores(InOrder) => ret = Canonical)

\* The step that returns: results still holds the records in the order in
\* which the workers were consumed.
C9_ReturnStep ==
    pc = "collect" /\ pc' = "returned" /\ report' = "success"

\* The returned records of each score are the first consumed of that score, in
\* the order of consumption.
C9_ConsumedOrderKept ==
    C9_ReturnStep =>
        \A k \in DOMAIN ret' :
            Group(ret', ret'[k].score)
               = Take(Group(results, ret'[k].score), Len(Group(ret', ret'[k].score)))

\* C9 amended: the scores of the returned list, position by position, are the
\* same in every interleaving of worker completions, every returned record is
\* a worker's record, and interleavings differ only among matches of equal
\* score: a match whose score no other match has is returned at the same
\* position, or cut, in every interleaving (so the whole list is the same when
\* no two matches have equal scores), while the returned matches of one score
\* are the first consumed of that score, in the order of consumption, also
\* when more than 10 candidates match.
C9_OrderOnlyAmongTies ==
    [](C9_Returned) /\ [][C9_ConsumedOrderKept]_vars

\* C9: 11 candidates of equal score matched, and C, which the scan in
\* submission order returns, was consumed last and cut.
C9_Witness ==
    /\ report = "success"
    /\ Len(InOrder) > 10
    /\ \E k \in DOMAIN Canonical : Canonical[k].code = "C"
    /\ \A k \in DOMAIN ret : ret[k].code # "C"
    /\ ScoresOf(ret) = ScoresOf(Canonical)

====
